---------------------------- MODULE Spec2Model ----------------------------
(***************************************************************************)
(* Redeem panel: the request/key state machine of burhan6826/redeem-panel. *)
(*                                                                         *)
(* The repository ships two deployments that share no storage:             *)
(*   "web"     - the express server (server/index.js) over the SQLite      *)
(*               database (server/database.js), reviewed through the bot   *)
(*               of bot/index.js;                                          *)
(*   "command" - the slash-command bot (index.js) over the JSON files of   *)
(*               storage.js.                                               *)
(* A behaviour of the model is a behaviour of one of them; the variable    *)
(* deployment says which.                                                  *)
(*                                                                         *)
(* Time is counted in minutes.  Texts (names, keys, links) are sequences   *)
(* of one-character strings, so that trimming and the regular expressions  *)
(* are computed as the code computes them.                                 *)
(*                                                                         *)
(* Storage calls succeed unless a uniqueness constraint refuses them.      *)
(***************************************************************************)
EXTENDS Integers, Sequences, FiniteSets, TLC

VARIABLES
    deployment,       \* "web" or "command"
    now,              \* the clock, in minutes
    redeem_requests,  \* table redeem_requests: the rows, in id order
    used_keys,        \* table used_keys: the rows, in id order
    http,             \* the POST handlers in flight, by connection
    click,            \* the button handlers in flight, by reviewer
    put,              \* the last response of PUT /api/requests/:id/status
    hits,             \* the request limiter's store: per origin, the count and the end of its window
    hist,             \* per request id: what status-setting calls did to it
    activeMessages,   \* the reviewer bot's Map from request id to message id
    messages,         \* the messages of the logs channel, by message id
    sweep,            \* the runs of checkForNewRequests in flight
    requestsFile,     \* data/redeem-requests.json
    usedKeysFile,     \* data/used-keys.json
    cooldownsFile,    \* data/cooldowns.json
    modals,           \* per user: redeem modals shown and not yet submitted
    reply,            \* the last reply of the command bot
    ret               \* what the last storage function called on its own returned

dbVars   == <<redeem_requests, used_keys>>
botVars  == <<activeMessages, messages, sweep>>
webVars  == <<redeem_requests, used_keys, http, click, put, hits, hist,
              activeMessages, messages, sweep>>
fileVars == <<requestsFile, usedKeysFile, cooldownsFile>>
cmdVars  == <<requestsFile, usedKeysFile, cooldownsFile, modals, reply, ret>>
vars     == <<deployment, now, redeem_requests, used_keys, http, click, put,
              hits, hist, activeMessages, messages, sweep, requestsFile,
              usedKeysFile, cooldownsFile, modals, reply, ret>>

-----------------------------------------------------------------------------
(* Bounds of the model *)

\* The clock stops advancing here.
MaxTime == 17

\* Modals one user may hold open at once.
MaxModals == 2

(* Program constants *)

\* isLength({ min: 1, max: 100 })
MaxFieldLen == 100

\* recentRequests.length >= 3
RecentLimit == 3

\* getRecentRequestsByIP(ipAddress, 15)
RecentWindowMinutes == 15

\* limiter: max 5 requests per windowMs
LimiterMax == 5

\* limiter: windowMs = 15 * 60 * 1000 ms
LimiterWindowMinutes == 15

\* cooldownPeriod = 10 * 60 * 1000 ms
CooldownMinutes == 10

REDEEM_EMAIL == "burhanw997@gmail.com"

NULL == "NULL"

-----------------------------------------------------------------------------
(* Texts *)

Digits == {"0","1","2","3","4","5","6","7","8","9"}

Lower == {"a","b","c","d","e","f","g","h","i","j","k","l","m",
          "n","o","p","q","r","s","t","u","v","w","x","y","z"}

Upper == {"A","B","C","D","E","F","G","H","I","J","K","L","M",
          "N","O","P","Q","R","S","T","U","V","W","X","Y","Z"}

\* [a-zA-Z0-9]
AlnumClass == Lower \cup Upper \cup Digits

\* [a-zA-Z0-9\-_]
KeyClass == AlnumClass \cup {"-", "_"}

Whitespace == {" ", "\t", "\n", "\r"}

RECURSIVE TrimLeft(_)
TrimLeft(s) ==
    IF s # <<>> /\ Head(s) \in Whitespace THEN TrimLeft(Tail(s)) ELSE s

RECURSIVE TrimRight(_)
TrimRight(s) ==
    IF s # <<>> /\ s[Len(s)] \in Whitespace
    THEN TrimRight(SubSeq(s, 1, Len(s) - 1))
    ELSE s

\* String.prototype.trim / express-validator .trim()
Trim(s) == TrimRight(TrimLeft(s))

HttpsScheme == <<"h","t","t","p","s",":","/","/">>

DiscordGG == <<"d","i","s","c","o","r","d",".","g","g","/">>

StartsWith(s, p) == Len(s) >= Len(p) /\ SubSeq(s, 1, Len(p)) = p

\* .isLength({ min: 1, max: 100 })
IsLength(s) == Len(s) >= 1 /\ Len(s) <= MaxFieldLen

\* /^[a-zA-Z0-9\-_]+$/
MatchesKeyRegex(s) == Len(s) >= 1 /\ \A i \in 1..Len(s) : s[i] \in KeyClass

\* Mutant of MatchesInviteRegex: the scheme is not part of the pattern.
MatchesInviteRegex_AnyScheme(s) ==
    \E n \in 0..Len(s) :
        LET rest == SubSeq(s, n + 1, Len(s))
        IN  /\ StartsWith(rest, DiscordGG)
            /\ Len(rest) > Len(DiscordGG)
            /\ \A i \in (Len(DiscordGG) + 1)..Len(rest) : rest[i] \in AlnumClass

\* /^https:\/\/discord\.gg\/[a-zA-Z0-9]+$/
MatchesInviteRegex(s) ==
    LET p == HttpsScheme \o DiscordGG
    IN  /\ StartsWith(s, p)
        /\ Len(s) > Len(p)
        /\ \A i \in (Len(p) + 1)..Len(s) : s[i] \in AlnumClass

\* .isURL({ protocols: ['https'], require_protocol: true }), as far as the
\* inputs of the model exercise it: the https scheme and a non-empty rest
\* without whitespace.
IsHttpsURL(s) ==
    /\ StartsWith(s, HttpsScheme)
    /\ Len(s) > Len(HttpsScheme)
    /\ \A i \in 1..Len(s) : s[i] \notin Whitespace

\* Mutant of ValidationErrors: the chain on inviteLink is missing.
ValidationErrors_NoLinkRules(body) ==
    (IF IsLength(body.name) THEN {}
     ELSE {"Name must be between 1 and 100 characters"})
    \cup
    (IF IsLength(body.redeemKey) THEN {}
     ELSE {"Redeem key must be between 1 and 100 characters"})
    \cup
    (IF MatchesKeyRegex(body.redeemKey) THEN {}
     ELSE {"Redeem key can only contain letters, numbers, hyphens, and underscores"})

\* validateRedeemRequest: the messages of the rules the body violates
\* (the body holds the trimmed fields).
ValidationErrors(body) ==
    (IF IsLength(body.name) THEN {}
     ELSE {"Name must be between 1 and 100 characters"})
    \cup
    (IF IsLength(body.redeemKey) THEN {}
     ELSE {"Redeem key must be between 1 and 100 characters"})
    \cup
    (IF MatchesKeyRegex(body.redeemKey) THEN {}
     ELSE {"Redeem key can only contain letters, numbers, hyphens, and underscores"})
    \cup
    (IF IsHttpsURL(body.inviteLink) THEN {}
     ELSE {"Invite link must be a valid HTTPS URL"})
    \cup
    (IF MatchesInviteRegex(body.inviteLink) THEN {}
     ELSE {"Invite link must be a valid Discord.gg invite URL"})

\* The sanitizers of validateRedeemRequest: every field trimmed.
Sanitize(raw) ==
    [name |-> Trim(raw.name), redeemKey |-> Trim(raw.redeemKey),
     inviteLink |-> Trim(raw.inviteLink)]

\* isValidDiscordInvite
isValidDiscordInvite(link) == MatchesInviteRegex(link)


-----------------------------------------------------------------------------
(* server/database.js: the SQLite tables and the statements over them *)

Range(f) == {f[i] : i \in DOMAIN f}

\* INTEGER PRIMARY KEY AUTOINCREMENT: the rowid an INSERT would get.
NextRowId(rows) ==
    IF rows = <<>> THEN 1
    ELSE 1 + (CHOOSE m \in {r.id : r \in Range(rows)} :
                 \A r \in Range(rows) : r.id <= m)

\* Mutant of isKeyUsed: a key whose request was rejected counts as free again.
isKeyUsed_UnlessRejected(redeemKey) ==
    /\ \E r \in Range(used_keys) : r.redeemKey = redeemKey
    /\ ~\E q \in Range(redeem_requests) :
           q.redeemKey = redeemKey /\ q.status = "REJECTED"

\* SELECT redeemKey FROM used_keys WHERE redeemKey = ?   (resolve(!!row))
isKeyUsed(redeemKey) == \E r \in Range(used_keys) : r.redeemKey = redeemKey

\* redeemKey TEXT UNIQUE NOT NULL on used_keys: the INSERT is refused.
UsedKeysConstraintFails(redeemKey) ==
    \E r \in Range(used_keys) : r.redeemKey = redeemKey

\* INSERT INTO used_keys (redeemKey) VALUES (?)
markKeyAsUsed(redeemKey) ==
    Append(used_keys, [id |-> NextRowId(used_keys), redeemKey |-> redeemKey,
                       usedAt |-> now])

\* Mutant of RequestsConstraintFails: the column is not declared UNIQUE.
RequestsConstraintFails_NotUnique(redeemKey) == FALSE

\* redeemKey TEXT UNIQUE NOT NULL on redeem_requests: the INSERT is refused.
RequestsConstraintFails(redeemKey) ==
    \E r \in Range(redeem_requests) : r.redeemKey = redeemKey

\* The row createRequest inserts: orderId is not among the columns of the
\* INSERT, status and timestamp take their defaults.
NewRow(requestData) ==
    [id         |-> NextRowId(redeem_requests),
     name       |-> requestData.name,
     redeemKey  |-> requestData.redeemKey,
     inviteLink |-> requestData.inviteLink,
     email      |-> requestData.email,
     status     |-> "PENDING",
     timestamp  |-> now,
     ipAddress  |-> requestData.ipAddress,
     userAgent  |-> requestData.userAgent,
     orderId    |-> NULL]

\* INSERT INTO redeem_requests (...) VALUES (...)
createRequest(requestData) == Append(redeem_requests, NewRow(requestData))

\* SELECT * FROM redeem_requests WHERE id = ?   (the rows; at most one)
getRequestById(id) == {r \in Range(redeem_requests) : r.id = id}

\* ORDER BY timestamp DESC: a stable sort by insertion, newest first; rows of
\* one timestamp come in the order the scan yields them, which is by id.
RECURSIVE OrderByTimestampDesc(_)
OrderByTimestampDesc(rows) ==
    IF rows = <<>> THEN <<>>
    ELSE LET i == CHOOSE k \in DOMAIN rows :
                     /\ \A j \in DOMAIN rows : rows[j].timestamp <= rows[k].timestamp
                     /\ \A j \in 1..(k - 1) : rows[j].timestamp < rows[k].timestamp
             rest == [j \in 1..(Len(rows) - 1) |->
                         IF j < i THEN rows[j] ELSE rows[j + 1]]
         IN  <<rows[i]>> \o OrderByTimestampDesc(rest)

\* SELECT * FROM redeem_requests ORDER BY timestamp DESC
getAllRequests == OrderByTimestampDesc(redeem_requests)

\* Mutant of getRequestsByStatus: the SELECT has no WHERE clause.
getRequestsByStatus_EveryStatus(status) == OrderByTimestampDesc(redeem_requests)

\* SELECT * FROM redeem_requests WHERE status = ? ORDER BY timestamp DESC
getRequestsByStatus(status) ==
    OrderByTimestampDesc(SelectSeq(redeem_requests, LAMBDA r : r.status = status))

\* Mutant of getRecentRequestsByIP: the SELECT has no condition on timestamp.
getRecentRequestsByIP_NoWindow(ipAddress, minutes) ==
    OrderByTimestampDesc(
        SelectSeq(redeem_requests, LAMBDA r : r.ipAddress = ipAddress))

\* SELECT * FROM redeem_requests WHERE ipAddress = ?
\*   AND timestamp > datetime('now', '-<minutes> minutes') ORDER BY timestamp DESC
getRecentRequestsByIP(ipAddress, minutes) ==
    OrderByTimestampDesc(
        SelectSeq(redeem_requests,
                  LAMBDA r : r.ipAddress = ipAddress /\ r.timestamp > now - minutes))

\* Mutant of UpdateChanges: the UPDATE always reports one changed row.
UpdateChanges_AlwaysOne(id) == 1

\* UPDATE redeem_requests SET status = ? WHERE id = ?   (this.changes)
UpdateChanges(id) == Cardinality({i \in DOMAIN redeem_requests : redeem_requests[i].id = id})

\* Mutant of updateRequestStatus: the UPDATE has no WHERE clause.
updateRequestStatus_EveryRow(id, status) ==
    [i \in DOMAIN redeem_requests |-> [redeem_requests[i] EXCEPT !.status = status]]

\* UPDATE redeem_requests SET status = ? WHERE id = ?   (the table afterwards)
updateRequestStatus(id, status) ==
    [i \in DOMAIN redeem_requests |->
        IF redeem_requests[i].id = id
        THEN [redeem_requests[i] EXCEPT !.status = status]
        ELSE redeem_requests[i]]

-----------------------------------------------------------------------------
(* server/index.js: POST /api/redeem and POST /api/redeem-order/:id *)

\* The keys that have a row in used_keys.
LedgerKeys == {used_keys[i].redeemKey : i \in DOMAIN used_keys}

\* res.status(code).json({ success, message, ... })
Json(code, message) == [code |-> code, message |-> message]

\* No response has been sent yet.
NoResponse == Json(0, "")

\* A connection with no request in flight.
IdleHttp ==
    [pc |-> "idle", orderId |-> NULL, name |-> <<>>, redeemKey |-> <<>>,
     inviteLink |-> <<>>, ipAddress |-> NULL, requestId |-> 0,
     keyWasUsed |-> FALSE, res |-> NoResponse, errors |-> {}]

\* The connection after the handler has answered: the request is gone, the
\* response stays to be read.
Answered(h, res) ==
    [IdleHttp EXCEPT !.pc = "done", !.res = res, !.keyWasUsed = h.keyWasUsed]

ValidationFailed == Json(400, "Validation failed")

DuplicateKey == Json(400, "This redeem key has already been used.")

RateLimited == Json(429, "Too many recent requests from this IP.")

\* res.status(201).json({ success: true, message, orderId?, requestId })
Received(h) ==
    [code |-> 201, message |-> "Your request has been received.",
     orderId |-> h.orderId, requestId |-> h.requestId]

InternalError == Json(500, "Internal server error. Please try again later.")

\* The limiter's answer: 429 with its message.
TooManyRequests == Json(429, "Too many requests from this IP, please try again later.")

\* The store entry of an origin the limiter has not seen in this window.
NoHits == [count |-> 0, resetTime |-> 0]

\* The store entry of an origin after one more request to /api/: a window
\* starts with the origin's first request and lasts windowMs.  Past max the
\* count is not carried further: every request of the window is refused.
Hit(ip) ==
    IF now >= hits[ip].resetTime
    THEN [count |-> 1, resetTime |-> now + LimiterWindowMinutes]
    ELSE [hits[ip] EXCEPT !.count = IF @ <= LimiterMax THEN @ + 1 ELSE @]

\* app.use('/api/', limiter): the request is refused when it takes the count
\* of its origin past max.
limiter(ip) == Hit(ip).count > LimiterMax

\* The handler is entered with the sanitized body: validationResult(req) is
\* consulted and, with no errors, the handler awaits database.isKeyUsed.
\* orderId is req.params.id on the order route and NULL on /api/redeem.
\* keyWasUsed records whether the ledger held the key when the request came.
WebReceive(c, raw, ip, orderId) ==
    /\ deployment = "web"
    /\ http[c].pc \in {"idle", "done"}
    /\ LET body   == Sanitize(raw)
           errors == ValidationErrors(body)
           req    == [IdleHttp EXCEPT !.orderId = orderId,
                                     !.name = body.name,
                                     !.redeemKey = body.redeemKey,
                                     !.inviteLink = body.inviteLink,
                                     !.ipAddress = ip,
                                     !.keyWasUsed = body.redeemKey \in LedgerKeys]
       IN  http' = [http EXCEPT ![c] =
                IF limiter(ip)
                THEN Answered(req, TooManyRequests)
                ELSE IF errors # {}
                THEN [Answered(req, ValidationFailed) EXCEPT !.errors = errors]
                ELSE [req EXCEPT !.pc = "isKeyUsed"]]
    /\ hits' = [hits EXCEPT ![ip] = Hit(ip)]
    /\ UNCHANGED <<deployment, now, redeem_requests, used_keys, click, put, hist>>
    /\ UNCHANGED cmdVars
    /\ UNCHANGED botVars

\* const isKeyUsed = await database.isKeyUsed(redeemKey); if (isKeyUsed) 400
WebIsKeyUsed(c) ==
    /\ http[c].pc = "isKeyUsed"
    /\ http' = [http EXCEPT ![c] =
            IF isKeyUsed(http[c].redeemKey)
            THEN Answered(@, DuplicateKey)
            ELSE [@ EXCEPT !.pc = "recent"]]
    /\ UNCHANGED <<deployment, now, redeem_requests, used_keys, click, put, hist, hits>>
    /\ UNCHANGED cmdVars
    /\ UNCHANGED botVars

\* Mutant of TooManyRecent: recentRequests.length > 3.
TooManyRecent_OffByOne(ipAddress) ==
    Len(getRecentRequestsByIP(ipAddress, RecentWindowMinutes)) > RecentLimit

\* recentRequests = await database.getRecentRequestsByIP(ipAddress, 15);
\* if (recentRequests.length >= 3) 429
TooManyRecent(ipAddress) ==
    Len(getRecentRequestsByIP(ipAddress, RecentWindowMinutes)) >= RecentLimit

WebRecent(c) ==
    /\ http[c].pc = "recent"
    /\ http' = [http EXCEPT ![c] =
            IF TooManyRecent(http[c].ipAddress)
            THEN Answered(@, RateLimited)
            ELSE [@ EXCEPT !.pc = "create"]]
    /\ UNCHANGED <<deployment, now, redeem_requests, used_keys, click, put, hist, hits>>
    /\ UNCHANGED cmdVars
    /\ UNCHANGED botVars

\* The object the handler passes to database.createRequest.
RequestData(h) ==
    [name |-> h.name, redeemKey |-> h.redeemKey, inviteLink |-> h.inviteLink,
     email |-> REDEEM_EMAIL, ipAddress |-> h.ipAddress, userAgent |-> "agent",
     orderId |-> h.orderId]

\* requestId = await database.createRequest({...}); a refused INSERT rejects
\* and the catch block answers 500.
WebCreate(c) ==
    /\ http[c].pc = "create"
    /\ IF RequestsConstraintFails(http[c].redeemKey)
       THEN /\ http' = [http EXCEPT ![c] = Answered(@, InternalError)]
            /\ UNCHANGED <<redeem_requests, hist>>
       ELSE /\ redeem_requests' = createRequest(RequestData(http[c]))
            /\ hist' = Append(hist, [sets |-> 0, decided |-> FALSE])
            /\ http' = [http EXCEPT ![c] =
                    [@ EXCEPT !.pc = "mark",
                              !.requestId = NextRowId(redeem_requests)]]
    /\ UNCHANGED <<deployment, now, used_keys, click, put, hits>>
    /\ UNCHANGED cmdVars
    /\ UNCHANGED botVars

\* await database.markKeyAsUsed(redeemKey); a refused INSERT rejects and the
\* catch block answers 500.
WebMark(c) ==
    /\ http[c].pc = "mark"
    /\ IF UsedKeysConstraintFails(http[c].redeemKey)
       THEN /\ http' = [http EXCEPT ![c] = Answered(@, InternalError)]
            /\ UNCHANGED used_keys
       ELSE /\ used_keys' = markKeyAsUsed(http[c].redeemKey)
            /\ http' = [http EXCEPT ![c] = [@ EXCEPT !.pc = "get"]]
    /\ UNCHANGED <<deployment, now, redeem_requests, click, put, hist, hits>>
    /\ UNCHANGED cmdVars
    /\ UNCHANGED botVars

\* request = await database.getRequestById(requestId); res.status(201)
WebRespond(c) ==
    /\ http[c].pc = "get"
    /\ http' = [http EXCEPT ![c] = Answered(@, Received(@))]
    /\ UNCHANGED <<deployment, now, redeem_requests, used_keys, click, put, hist, hits>>
    /\ UNCHANGED cmdVars
    /\ UNCHANGED botVars

-----------------------------------------------------------------------------
(* server/index.js: PUT /api/requests/:id/status *)

Statuses == {"PENDING", "APPROVED", "REJECTED"}

Terminal == {"APPROVED", "REJECTED"}

\* What a successful status-setting call adds to the history of the request:
\* sets counts the successful calls (0, 1, 2 for two or more), decided says
\* whether one of them set APPROVED or REJECTED.
Record(h, id, status) ==
    [i \in DOMAIN h |->
        IF i \in DOMAIN redeem_requests /\ redeem_requests[i].id = id
        THEN [sets    |-> IF h[i].sets < 2 THEN h[i].sets + 1 ELSE 2,
              decided |-> h[i].decided \/ status \in Terminal]
        ELSE h[i]]

\* The whole handler, behind the limiter: the status is checked against the
\* three names, the UPDATE runs, and this.changes decides between 404 and
\* success.
WebPutStatus(id, status, ip) ==
    /\ deployment = "web"
    /\ hits' = [hits EXCEPT ![ip] = Hit(ip)]
    /\ IF limiter(ip)
       THEN /\ put' = TooManyRequests
            /\ UNCHANGED <<redeem_requests, hist>>
       ELSE IF status \notin {"PENDING", "APPROVED", "REJECTED"}
       THEN /\ put' = Json(400, "Invalid status.")
            /\ UNCHANGED <<redeem_requests, hist>>
       ELSE IF UpdateChanges(id) = 0
       THEN /\ put' = Json(404, "Request not found")
            /\ UNCHANGED <<redeem_requests, hist>>
       ELSE /\ redeem_requests' = updateRequestStatus(id, status)
            /\ hist' = Record(hist, id, status)
            /\ put' = Json(200, "Request status updated")
    /\ UNCHANGED <<deployment, now, used_keys, http, click>>
    /\ UNCHANGED cmdVars
    /\ UNCHANGED botVars

-----------------------------------------------------------------------------
(* bot/index.js: the approve/reject buttons *)

IdleClick == [pc |-> "idle", action |-> NULL, requestId |-> 0,
              newStatus |-> NULL, message |-> 0, res |-> NULL]

\* The handler after interaction.reply / interaction.update.
ClickAnswered(content) == [IdleClick EXCEPT !.pc = "done", !.res = content]

\* A click on a button of the message m (0: the message is not looked at).
\* const [action, requestId] = customId.split('_');
\* request = await database.getRequestById(requestId); the two early returns;
\* otherwise the handler goes on to await database.updateRequestStatus.
ClickReadOn(r, action, requestId, m) ==
    /\ deployment = "web"
    /\ click[r].pc \in {"idle", "done"}
    /\ LET request == getRequestById(requestId)
           c       == [IdleClick EXCEPT !.action = action, !.requestId = requestId,
                                        !.message = m]
       IN  click' = [click EXCEPT ![r] =
                IF request = {}
                THEN ClickAnswered("Request not found.")
                ELSE IF (CHOOSE q \in request : TRUE).status # "PENDING"
                THEN ClickAnswered("This request has already been decided.")
                ELSE [c EXCEPT !.pc = "update",
                               !.newStatus = IF action = "approve" THEN "APPROVED"
                                             ELSE "REJECTED"]]
    /\ UNCHANGED <<deployment, now, redeem_requests, used_keys, http, put, hist, hits>>
    /\ UNCHANGED cmdVars
    /\ UNCHANGED botVars

ClickRead(r, action, requestId) == ClickReadOn(r, action, requestId, 0)

\* A key of the Map activeMessages.  Map compares keys with SameValueZero:
\* the number 1 and the string "1" are different keys.
NumberKey(id) == <<"number", id>>

StringKey(id) == <<"string", id>>

\* Mutant of activeMessagesHas: every request counts as notified.
activeMessagesHas_Always(key) == TRUE

\* activeMessages.has(key)
activeMessagesHas(key) == key \in DOMAIN activeMessages

\* activeMessages.get(key); 0 stands for undefined.
activeMessagesGet(key) ==
    IF key \in DOMAIN activeMessages THEN activeMessages[key] ELSE 0

\* activeMessages.set(key, messageId): the Map afterwards.
activeMessagesSet(key, messageId) ==
    [k \in DOMAIN activeMessages \cup {key} |->
        IF k = key THEN messageId ELSE activeMessages[k]]

\* channel.send({ embeds: [createRequestEmbed(request)], components: [buttons] }):
\* the embed shows the request's status and, if it has one, its order id.
NewMessage(request) ==
    [requestId |-> request.id, status |-> request.status,
     orderId |-> request.orderId, components |-> TRUE, content |-> NULL]

\* updateRequestMessage(requestId, status), called after the status was
\* written: messageId = activeMessages.get(requestId), with the early return
\* when there is none; the request is read again and the message is edited
\* with a fresh embed, and with buttons only for PENDING.  The messages
\* afterwards.
updateRequestMessage(requestId, status) ==
    LET messageId == activeMessagesGet(requestId)
        request   == {q \in Range(redeem_requests') : q.id = requestId[2]}
    IN  IF messageId = 0 \/ request = {}
        THEN messages
        ELSE [messages EXCEPT ![messageId] =
                 [@ EXCEPT !.status = (CHOOSE q \in request : TRUE).status,
                           !.components = (status = "PENDING")]]

\* interaction.update({ content, components: [] }) edits the message the
\* clicked button is on: its content and components, not its embeds.
interactionUpdate(msgs, m, newStatus) ==
    IF m = 0 THEN msgs
    ELSE [msgs EXCEPT ![m] = [@ EXCEPT !.content = newStatus, !.components = FALSE]]

\* await database.updateRequestStatus(requestId, newStatus);
\* await updateRequestMessage(requestId, newStatus), where requestId is the
\* string cut out of the customId; await interaction.update(...).
ClickUpdate(r) ==
    /\ click[r].pc = "update"
    /\ redeem_requests' = updateRequestStatus(click[r].requestId, click[r].newStatus)
    /\ hist' = Record(hist, click[r].requestId, click[r].newStatus)
    /\ messages' = interactionUpdate(
                       updateRequestMessage(StringKey(click[r].requestId),
                                            click[r].newStatus),
                       click[r].message, click[r].newStatus)
    /\ click' = [click EXCEPT ![r] = ClickAnswered("confirmed")]
    /\ UNCHANGED <<deployment, now, used_keys, http, put, hits>>
    /\ UNCHANGED <<activeMessages, sweep>>
    /\ UNCHANGED cmdVars

-----------------------------------------------------------------------------
(* bot/index.js: the sweep for new requests *)

\* No run of checkForNewRequests.
IdleSweep == [pc |-> "idle", pendingRequests |-> <<>>]

\* setInterval(checkForNewRequests, 30000) fires, or the call at startup:
\* pendingRequests = await database.getRequestsByStatus('PENDING').  The
\* timer does not look at whether an earlier run has returned.
SweepStart(s) ==
    /\ deployment = "web"
    /\ sweep[s].pc = "idle"
    /\ sweep' = [sweep EXCEPT ![s] =
            [pc |-> "loop", pendingRequests |-> getRequestsByStatus("PENDING")]]
    /\ UNCHANGED <<deployment, now, redeem_requests, used_keys, http, click, put,
                   hits, hist, activeMessages, messages>>
    /\ UNCHANGED cmdVars

\* for (const request of pendingRequests): if (!activeMessages.has(request.id))
\* the run goes on to send, awaiting the channel; otherwise the next request.
SweepNext(s) ==
    /\ sweep[s].pc = "loop"
    /\ sweep' = [sweep EXCEPT ![s] =
            IF @.pendingRequests = <<>>
            THEN IdleSweep
            ELSE IF activeMessagesHas(NumberKey(Head(@.pendingRequests).id))
            THEN [@ EXCEPT !.pendingRequests = Tail(@)]
            ELSE [@ EXCEPT !.pc = "send"]]
    /\ UNCHANGED <<deployment, now, redeem_requests, used_keys, http, click, put,
                   hits, hist, activeMessages, messages>>
    /\ UNCHANGED cmdVars

\* sendNewRequestNotification(request): message = await channel.send(...);
\* activeMessages.set(request.id, message.id); then the one-second delay.
SweepSend(s) ==
    /\ sweep[s].pc = "send"
    /\ LET request == Head(sweep[s].pendingRequests)
       IN  /\ messages' = Append(messages, NewMessage(request))
           /\ activeMessages' = activeMessagesSet(NumberKey(request.id),
                                                  Len(messages) + 1)
    /\ sweep' = [sweep EXCEPT ![s] =
            [@ EXCEPT !.pc = "loop", !.pendingRequests = Tail(@)]]
    /\ UNCHANGED <<deployment, now, redeem_requests, used_keys, http, click, put,
                   hits, hist>>
    /\ UNCHANGED cmdVars

\* sendNewRequestNotification(request) when the channel cannot be fetched or
\* channel.send rejects: the function returns or its catch block logs,
\* activeMessages is not set, and the run goes on after the delay.
SweepSendFails(s) ==
    /\ sweep[s].pc = "send"
    /\ sweep' = [sweep EXCEPT ![s] =
            [@ EXCEPT !.pc = "loop", !.pendingRequests = Tail(@)]]
    /\ UNCHANGED <<deployment, now, redeem_requests, used_keys, http, click, put,
                   hits, hist, activeMessages, messages>>
    /\ UNCHANGED cmdVars

-----------------------------------------------------------------------------
(* storage.js: the JSON files and the functions over them *)

readRequests == requestsFile

readUsedKeys == usedKeysFile

readCooldowns == cooldownsFile

\* usedKeys.includes(redeemKey)
fileIsKeyUsed(redeemKey) == redeemKey \in Range(readUsedKeys)

\* if (!usedKeys.includes(redeemKey)) { usedKeys.push(redeemKey); write }
\* The file afterwards.
fileMarkKeyAsUsed(redeemKey) ==
    IF redeemKey \notin Range(readUsedKeys)
    THEN Append(readUsedKeys, redeemKey)
    ELSE usedKeysFile

\* Mutant of isUserOnCooldown: every user with an entry is on cooldown.
isUserOnCooldown_EntryOnly(userId) ==
    LET cooldowns == readCooldowns
    IN  userId \in DOMAIN cooldowns /\ cooldowns[userId] # 0

\* Mutant of isUserOnCooldown: timeSinceLastRequest <= cooldownPeriod.
isUserOnCooldown_Inclusive(userId) ==
    LET cooldowns == readCooldowns
    IN  IF userId \notin DOMAIN cooldowns \/ cooldowns[userId] = 0
        THEN FALSE
        ELSE now - cooldowns[userId] <= CooldownMinutes

\* const userCooldown = cooldowns[userId]; if (!userCooldown) return false;
\* return Date.now() - userCooldown < cooldownPeriod          (0 is falsy)
isUserOnCooldown(userId) ==
    LET cooldowns == readCooldowns
    IN  IF userId \notin DOMAIN cooldowns \/ cooldowns[userId] = 0
        THEN FALSE
        ELSE now - cooldowns[userId] < CooldownMinutes

\* Mutant of setUserCooldown: an entry the user already has is kept.
setUserCooldown_KeepFirst(userId) ==
    LET cooldowns == readCooldowns
    IN  [u \in DOMAIN cooldowns \cup {userId} |->
            IF u \in DOMAIN cooldowns THEN cooldowns[u] ELSE now]

\* cooldowns[userId] = Date.now(); writeCooldowns(cooldowns)
setUserCooldown(userId) ==
    LET cooldowns == readCooldowns
    IN  [u \in DOMAIN cooldowns \cup {userId} |->
            IF u = userId THEN now ELSE cooldowns[u]]

\* requests.push(requestData); writeRequests(requests)
saveRequest(requestData) == Append(readRequests, requestData)

-----------------------------------------------------------------------------
(* index.js: the /redeem command and its modal *)

\* interaction.reply({ embeds: [embed] }) / interaction.showModal(modal)
Reply(userId, kind, title) == [userId |-> userId, kind |-> kind, title |-> title]

\* The bot has not replied to anything yet.
NoReply == Reply(NULL, NULL, NULL)

\* What a storage function called on its own returned: "true" or "false", or
\* "resolved" or "rejected" for a promise.
Return(fn, value) == [fn |-> fn, value |-> value]

\* No storage function has been called on its own yet.
NoReturn == Return(NULL, NULL)

\* handleRedeemCommand: the cooldown embed, or the modal is shown.
CmdRedeem(userId) ==
    /\ deployment = "command"
    /\ IF isUserOnCooldown(userId)
       THEN /\ reply' = Reply(userId, "command", "Cooldown Active")
            /\ UNCHANGED modals
       ELSE /\ modals[userId] < MaxModals
            /\ modals' = [modals EXCEPT ![userId] = @ + 1]
            /\ reply' = Reply(userId, "command", "showModal")
    /\ UNCHANGED <<deployment, now, requestsFile, usedKeysFile, cooldownsFile, ret>>
    /\ UNCHANGED webVars

\* The record handleRedeemModal saves.
FileRequest(userId, redeemKey, inviteLink) ==
    [userId |-> userId, username |-> userId, redeemKey |-> redeemKey,
     invite |-> inviteLink, email |-> REDEEM_EMAIL, status |-> "PENDING",
     timestamp |-> now]

\* handleRedeemModal, from the trimmed fields to the reply: the three early
\* returns, then setUserCooldown, markKeyAsUsed, saveRequest and the
\* processing embed.  No await separates these steps.
CmdModalSubmit(userId, rawKey, rawLink) ==
    /\ deployment = "command"
    /\ modals[userId] > 0
    /\ modals' = [modals EXCEPT ![userId] = @ - 1]
    /\ LET redeemKey  == Trim(rawKey)
           inviteLink == Trim(rawLink)
           answer(title) == Reply(userId, "modal", title)
       IN  IF redeemKey = <<>>
           THEN /\ reply' = answer("Invalid Input")
                /\ UNCHANGED fileVars
           ELSE IF ~isValidDiscordInvite(inviteLink)
           THEN /\ reply' = answer("Invalid Invite Link")
                /\ UNCHANGED fileVars
           ELSE IF fileIsKeyUsed(redeemKey)
           THEN /\ reply' = answer("Key Already Used")
                /\ UNCHANGED fileVars
           ELSE /\ cooldownsFile' = setUserCooldown(userId)
                /\ usedKeysFile' = fileMarkKeyAsUsed(redeemKey)
                /\ requestsFile' = saveRequest(FileRequest(userId, redeemKey, inviteLink))
                /\ reply' = answer("Processing Request")
    /\ UNCHANGED <<deployment, now, ret>>
    /\ UNCHANGED webVars

-----------------------------------------------------------------------------
(* storage.js: the functions called on their own *)

\* Mutant of fileMarkKeyAsUsedReturns: the write's result whatever the ledger holds.
fileMarkKeyAsUsedReturns_AlwaysTrue(redeemKey) == "true"

\* What markKeyAsUsed returns: writeUsedKeys' true after the push, false when
\* the key is included already.
fileMarkKeyAsUsedReturns(redeemKey) ==
    IF redeemKey \notin Range(readUsedKeys) THEN "true" ELSE "false"

\* markKeyAsUsed(redeemKey) of storage.js.
CallFileMarkKeyAsUsed(redeemKey) ==
    /\ deployment = "command"
    /\ usedKeysFile' = fileMarkKeyAsUsed(redeemKey)
    /\ ret' = Return("markKeyAsUsed", fileMarkKeyAsUsedReturns(redeemKey))
    /\ UNCHANGED <<deployment, now, requestsFile, cooldownsFile, modals, reply>>
    /\ UNCHANGED webVars

\* database.markKeyAsUsed(redeemKey): the promise resolves with the new row
\* id, or rejects when the INSERT is refused.
CallMarkKeyAsUsed(redeemKey) ==
    /\ deployment = "web"
    /\ IF UsedKeysConstraintFails(redeemKey)
       THEN /\ ret' = Return("markKeyAsUsed", "rejected")
            /\ UNCHANGED used_keys
       ELSE /\ ret' = Return("markKeyAsUsed", "resolved")
            /\ used_keys' = markKeyAsUsed(redeemKey)
    /\ UNCHANGED <<deployment, now, redeem_requests, http, click, put, hits, hist>>
    /\ UNCHANGED <<requestsFile, usedKeysFile, cooldownsFile, modals, reply>>
    /\ UNCHANGED botVars

\* database.getAllRequests(): the promise resolves with the rows.
CallGetAllRequests ==
    /\ deployment = "web"
    /\ ret' = Return("getAllRequests", getAllRequests)
    /\ UNCHANGED <<deployment, now, redeem_requests, used_keys, http, click, put,
                   hits, hist>>
    /\ UNCHANGED <<requestsFile, usedKeysFile, cooldownsFile, modals, reply>>
    /\ UNCHANGED botVars

\* The calls of getRequestsByStatus, by their argument.
ByStatus ==
    [PENDING  |-> "getRequestsByStatus('PENDING')",
     APPROVED |-> "getRequestsByStatus('APPROVED')",
     REJECTED |-> "getRequestsByStatus('REJECTED')"]

\* database.getRequestsByStatus(status): the promise resolves with the rows.
CallGetRequestsByStatus(status) ==
    /\ deployment = "web"
    /\ ret' = Return(ByStatus[status], getRequestsByStatus(status))
    /\ UNCHANGED <<deployment, now, redeem_requests, used_keys, http, click, put,
                   hits, hist>>
    /\ UNCHANGED <<requestsFile, usedKeysFile, cooldownsFile, modals, reply>>
    /\ UNCHANGED botVars

\* Mutant of cleanupOldCooldowns: entries older than half the period go.
cleanupOldCooldowns_HalfPeriod ==
    LET cooldowns == readCooldowns
        kept == {u \in DOMAIN cooldowns : ~(2 * (now - cooldowns[u]) > CooldownMinutes)}
    IN  [u \in kept |-> cooldowns[u]]

\* for each entry: if (currentTime - timestamp > cooldownPeriod) delete it;
\* the file afterwards.
cleanupOldCooldowns ==
    LET cooldowns == readCooldowns
        kept == {u \in DOMAIN cooldowns : ~(now - cooldowns[u] > CooldownMinutes)}
    IN  [u \in kept |-> cooldowns[u]]

\* client.once(ClientReady): the bot has (re)started and cleans up.
CmdReady ==
    /\ deployment = "command"
    /\ cooldownsFile' = cleanupOldCooldowns
    /\ UNCHANGED <<deployment, now, requestsFile, usedKeysFile, modals, reply, ret>>
    /\ UNCHANGED webVars

-----------------------------------------------------------------------------
(* storage.js and index.js when a file operation fails *)

\* The storage calls of one accepted modal, in the order they are made; at
\* most one of them fails in one run of the handler.
Faults == {"none", "isKeyUsed.read",
           "setUserCooldown.read", "setUserCooldown.write",
           "markKeyAsUsed.read", "markKeyAsUsed.write",
           "saveRequest.read", "saveRequest.write"}

\* readUsedKeys: the catch block returns [].
readUsedKeysOr(failed) == IF failed THEN <<>> ELSE usedKeysFile

\* readCooldowns: the catch block returns {}.
readCooldownsOr(failed) == IF failed THEN <<>> ELSE cooldownsFile

\* readRequests: the catch block returns [].
readRequestsOr(failed) == IF failed THEN <<>> ELSE requestsFile

\* handleRedeemModal with the file operation named by fault failing: a
\* failed read gives the empty value, a failed write leaves the file as it
\* was and returns false, which the handler does not look at.
CmdModalSubmitFaulty(userId, rawKey, rawLink, fault) ==
    /\ deployment = "command"
    /\ modals[userId] > 0
    /\ modals' = [modals EXCEPT ![userId] = @ - 1]
    /\ LET redeemKey  == Trim(rawKey)
           inviteLink == Trim(rawLink)
           answer(title) == Reply(userId, "modal", title)
           cooldowns == readCooldownsOr(fault = "setUserCooldown.read")
           usedKeys  == readUsedKeysOr(fault = "markKeyAsUsed.read")
           requests  == readRequestsOr(fault = "saveRequest.read")
       IN  IF redeemKey = <<>>
           THEN /\ reply' = answer("Invalid Input")
                /\ UNCHANGED fileVars
           ELSE IF ~isValidDiscordInvite(inviteLink)
           THEN /\ reply' = answer("Invalid Invite Link")
                /\ UNCHANGED fileVars
           ELSE IF redeemKey \in Range(readUsedKeysOr(fault = "isKeyUsed.read"))
           THEN /\ reply' = answer("Key Already Used")
                /\ UNCHANGED fileVars
           ELSE /\ cooldownsFile' =
                     IF fault = "setUserCooldown.write" THEN cooldownsFile
                     ELSE [u \in DOMAIN cooldowns \cup {userId} |->
                              IF u = userId THEN now ELSE cooldowns[u]]
                /\ usedKeysFile' =
                     IF fault = "markKeyAsUsed.write" \/ redeemKey \in Range(usedKeys)
                     THEN usedKeysFile
                     ELSE Append(usedKeys, redeemKey)
                /\ requestsFile' =
                     IF fault = "saveRequest.write" THEN requestsFile
                     ELSE Append(requests, FileRequest(userId, redeemKey, inviteLink))
                /\ reply' = answer("Processing Request")
    /\ UNCHANGED <<deployment, now, ret>>
    /\ UNCHANGED webVars

\* A database call of the POST handler rejects (the database is locked or
\* the disk fails): the catch block answers 500 and nothing is written.
WebFault(c) ==
    /\ http[c].pc \in {"isKeyUsed", "recent", "create", "mark", "get"}
    /\ http' = [http EXCEPT ![c] = Answered(@, InternalError)]
    /\ UNCHANGED <<deployment, now, redeem_requests, used_keys, click, put, hits, hist>>
    /\ UNCHANGED cmdVars
    /\ UNCHANGED botVars

-----------------------------------------------------------------------------
(* The clock *)

Tick(d) ==
    /\ now + d <= MaxTime
    /\ now' = now + d
    /\ hits' = [ip \in DOMAIN hits |->
                 IF now' >= hits[ip].resetTime THEN NoHits ELSE hits[ip]]
    /\ UNCHANGED <<deployment, redeem_requests, used_keys, http, click, put, hist>>
    /\ UNCHANGED cmdVars
    /\ UNCHANGED botVars

-----------------------------------------------------------------------------
(* Inputs *)

Name == <<"A","l","i","c","e">>

KeyA == <<"A","A","A","-","1">>

KeyB == <<"B","_","2">>

KeyC == <<"c","3">>

KeyD == <<"D","4">>

\* " AAA-1": trims to KeyA
PaddedKeyA == <<" ">> \o KeyA

\* "AAA 1": a space inside
SpacedKey == <<"A","A","A"," ","1">>

\* "k#": passes the modal's non-empty check, fails the key regex
HashKey == <<"k","#">>

InviteCode == <<"a","b","c","1","2","3">>

\* https://discord.gg/abc123
GoodLink == HttpsScheme \o DiscordGG \o InviteCode

\* http://discord.gg/abc123
HttpLink == <<"h","t","t","p",":","/","/">> \o DiscordGG \o InviteCode

\* https://discordapp.com/invite/abc123
AppLink ==
    HttpsScheme \o <<"d","i","s","c","o","r","d","a","p","p",".","c","o","m","/",
                     "i","n","v","i","t","e","/">> \o InviteCode

Connections == {"c1", "c2"}

Reviewers == {"r1", "r2"}

\* The runs of checkForNewRequests that may be in flight together.
Sweeps == {"s1", "s2"}

Users == {"u1", "u2"}

\* Minutes between two events of the command deployment.
CommandTicks == {5, 6}

\* Minutes between two events of the web deployment.
WebTicks == {7, 8}

\* What users type into the modal's two fields.
ModalKeys == {KeyA, KeyB, PaddedKeyA, <<" ">>}

ModalLinks == {GoodLink, HttpLink}

\* https://discord.gg/abc123 between blanks
PaddedGoodLink == <<" ">> \o GoodLink \o <<" ">>

\* https://discord.gg/abc-123
DashLink == HttpsScheme \o DiscordGG \o <<"a","b","c","-","1","2","3">>

\* https://discord.gg/
BareLink == HttpsScheme \o DiscordGG

\* https://discord.gg/abc123/x
LongerLink == GoodLink \o <<"/","x">>

\* The invite links of the link specification.
LinkInputs == {GoodLink, HttpLink, AppLink, PaddedGoodLink, DashLink, BareLink,
               LongerLink}

\* The addresses requests come from.
Origins == {"ip1", "ip2"}

\* Raw bodies: every name, key and link of the three sets.
Bodies(names, keys, links) ==
    [name : names, redeemKey : keys, inviteLink : links]

-----------------------------------------------------------------------------
(* The specifications *)

Init ==
    /\ deployment \in {"web", "command"}
    /\ now = 1
    /\ redeem_requests = <<>>
    /\ used_keys = <<>>
    /\ http = [c \in Connections |-> IdleHttp]
    /\ click = [r \in Reviewers |-> IdleClick]
    /\ put = NoResponse
    /\ hits = [ip \in Origins |-> NoHits]
    /\ activeMessages = <<>>
    /\ messages = <<>>
    /\ sweep = [s \in Sweeps |-> IdleSweep]
    /\ hist = <<>>
    /\ requestsFile = <<>>
    /\ usedKeysFile = <<>>
    /\ cooldownsFile = <<>>
    /\ modals = [u \in Users |-> 0]
    /\ reply = NoReply
    /\ ret = NoReturn

\* The steps of the POST handlers in flight.
WebStep(c) ==
    \/ WebIsKeyUsed(c)
    \/ WebRecent(c)
    \/ WebCreate(c)
    \/ WebMark(c)
    \/ WebRespond(c)

\* Requests arriving on the connections cs, with bodies from the given sets.
WebArrivals(cs, keys, links, ips, orderIds) ==
    \E c \in cs : \E raw \in Bodies({Name}, keys, links) :
        \E ip \in ips : \E orderId \in orderIds : WebReceive(c, raw, ip, orderId)

\* The PUT calls, on the ids 1..2 and on an id no request has, from the
\* address the submissions come from.
Puts ==
    \E id \in 1..3 : \E status \in Statuses \cup {"DONE"} :
        WebPutStatus(id, status, "ip1")

\* The clicks of the reviewers rs, on the same ids.
Clicks(rs) ==
    \/ \E r \in rs : \E action \in {"approve", "reject"} :
         \E id \in 1..3 : ClickRead(r, action, id)
    \/ \E r \in rs : ClickUpdate(r)

\* The web deployment inside one clock minute: requests arriving one after
\* the other on one connection, the PUT calls and one reviewer.
NextLifecycle ==
    \/ WebArrivals({"c1"}, {KeyA, KeyB, SpacedKey}, {GoodLink, HttpLink},
                   {"ip1"}, {NULL})
    \/ WebStep("c1")
    \/ Puts
    \/ Clicks({"r1"})

\* The command deployment, with its clock.
NextCommand ==
    \/ \E u \in Users : CmdRedeem(u)
    \/ \E u \in Users : \E k \in ModalKeys : \E l \in ModalLinks :
         CmdModalSubmit(u, k, l)
    \/ \E d \in CommandTicks : deployment = "command" /\ Tick(d)

Next == NextLifecycle \/ NextCommand

Spec == Init /\ [][Next]_vars

\* The web deployment inside one clock minute: requests racing on two
\* connections, and no status-setting call.
NextRace ==
    \/ WebArrivals(Connections, {KeyA, KeyB, PaddedKeyA, SpacedKey},
                   {GoodLink, HttpLink}, {"ip1"}, {NULL, "X"})
    \/ \E c \in Connections : WebStep(c)

SpecRace == Init /\ [][NextRace \/ NextCommand]_vars

\* The keys of the rate specification, in the order they are first submitted.
RateKeys == <<KeyA, KeyB, KeyC, KeyD>>

\* The keys of the requests persisted so far.
PersistedKeys == {r.redeemKey : r \in Range(redeem_requests)}

\* The first key of RateKeys that is not persisted yet, if there is one.
NextFreshKey ==
    LET fresh == {i \in DOMAIN RateKeys : RateKeys[i] \notin PersistedKeys}
    IN  {RateKeys[i] : i \in {j \in fresh : \A k \in fresh : j <= k}}

\* The keys a client of the rate specification submits: the persisted ones
\* and the first of RateKeys that is not persisted yet.
OfferedKeys == PersistedKeys \cup NextFreshKey

\* The web deployment over its clock: requests arriving one after the other
\* with up to four distinct keys; the origin ip1 submits fresh and persisted
\* keys, the origin ip2 the first two keys while they are fresh.
NextRate ==
    \/ WebArrivals({"c1"}, OfferedKeys, {GoodLink}, {"ip1"}, {NULL})
    \/ WebArrivals({"c1"}, NextFreshKey \cap {KeyA, KeyB}, {GoodLink}, {"ip2"}, {NULL})
    \/ WebStep("c1")
    \/ \E d \in WebTicks : deployment = "web" /\ Tick(d)

InitWeb == Init /\ deployment = "web"

SpecRate == InitWeb /\ [][NextRate]_vars

\* The web deployment inside one clock minute: one request, and two
\* reviewers clicking at the same time.
NextReview ==
    \/ WebArrivals({"c1"}, {KeyA}, {GoodLink}, {"ip1"}, {NULL})
    \/ WebStep("c1")
    \/ Clicks(Reviewers)

SpecReview == InitWeb /\ [][NextReview]_vars

\* The keys the storage functions are called with on their own.
StoreKeys == {KeyA, KeyB}

\* Either deployment with its storage functions also called on their own,
\* and the command bot restarting at any time.
NextStore ==
    \/ NextCommand
    \/ CmdReady
    \/ \E k \in StoreKeys : CallFileMarkKeyAsUsed(k)
    \/ \E k \in StoreKeys : CallMarkKeyAsUsed(k)

SpecStore == Init /\ [][NextStore]_vars

\* Either deployment with failing storage: one user's modals with any one
\* file operation failing, and one connection whose database calls may
\* reject.
NextFault ==
    \/ CmdRedeem("u1")
    \/ \E k \in StoreKeys : \E fault \in Faults :
         CmdModalSubmitFaulty("u1", k, GoodLink, fault)
    \/ \E d \in CommandTicks : deployment = "command" /\ Tick(d)
    \/ WebArrivals({"c1"}, StoreKeys, {GoodLink}, {"ip1"}, {NULL})
    \/ WebStep("c1")
    \/ WebFault("c1")

SpecFault == Init /\ [][NextFault]_vars

\* The clicks of the reviewers rs on the buttons the messages of the
\* channel carry.
ClicksOnMessages(rs) ==
    \/ \E r \in rs : \E m \in DOMAIN messages : \E action \in {"approve", "reject"} :
         messages[m].components /\ ClickReadOn(r, action, messages[m].requestId, m)
    \/ \E r \in rs : ClickUpdate(r)

\* The web deployment with the reviewer bot: requests arriving with fresh
\* keys, the sweeps, two of which may be in flight together, and one
\* reviewer clicking.
NextNotify ==
    \/ WebArrivals({"c1"}, StoreKeys \ PersistedKeys, {GoodLink}, {"ip1"}, {NULL})
    \/ WebStep("c1")
    \/ \E s \in Sweeps : SweepStart(s) \/ SweepNext(s) \/ SweepSend(s)
    \/ ClicksOnMessages({"r1"})

SpecNotify == InitWeb /\ [][NextNotify]_vars

\* Bodies with a blank name or a key with a space inside.
ShapelessBodies ==
    {b \in Bodies({Name, <<" ">>}, {KeyA, SpacedKey}, {GoodLink}) :
        b.name = <<" ">> \/ b.redeemKey = SpacedKey}

\* The keys typed into the modal in the link specification.
LinkModalKeys == StoreKeys \cup {<<" ">>}

\* Either deployment with one submitter trying every link of LinkInputs;
\* a second origin sends the bodies of ShapelessBodies, and the modal is
\* also submitted with a blank key.
NextLinks ==
    \/ WebArrivals({"c1"}, {KeyA}, LinkInputs, {"ip1"}, {NULL})
    \/ \E raw \in ShapelessBodies : WebReceive("c1", raw, "ip2", NULL)
    \/ WebStep("c1")
    \/ CmdRedeem("u1")
    \/ \E k \in LinkModalKeys : \E l \in LinkInputs : CmdModalSubmit("u1", k, l)
    \/ \E d \in CommandTicks : deployment = "command" /\ Tick(d)

SpecLinks == Init /\ [][NextLinks]_vars

\* Both deployments over their clocks: the web deployment as in the rate
\* specification, the command deployment with its users.
SpecRetry == Init /\ [][NextRate \/ NextCommand]_vars

\* The keys of the listing specification.
ListKeys == {KeyA, KeyB, KeyC}

\* Minutes between two events of the listing specification.
ListTicks == {8}

\* The web deployment over its clock: requests arriving with the keys of
\* ListKeys in their order, the first one decided through the PUT route,
\* and the list functions called at any time.
NextList ==
    \/ WebArrivals({"c1"}, NextFreshKey \cap ListKeys, {GoodLink}, {"ip1"}, {NULL})
    \/ WebStep("c1")
    \/ \E status \in Terminal : WebPutStatus(1, status, "ip1")
    \/ \E d \in ListTicks : deployment = "web" /\ Tick(d)
    \/ CallGetAllRequests
    \/ \E status \in Statuses : CallGetRequestsByStatus(status)

SpecList == InitWeb /\ [][NextList]_vars

\* The web deployment with the reviewer bot, whose sends may fail.
NextSurface ==
    \/ WebArrivals({"c1"}, StoreKeys \ PersistedKeys, {GoodLink}, {"ip1"}, {NULL})
    \/ WebStep("c1")
    \/ \E s \in Sweeps : SweepStart(s) \/ SweepNext(s) \/ SweepSend(s)
    \/ \E s \in Sweeps : SweepSendFails(s)
    \/ ClicksOnMessages({"r1"})

\* The timer keeps firing, a run that has started goes on, and a send that
\* is tried again and again succeeds in the end.
SurfaceFairness ==
    \A s \in Sweeps :
        /\ WF_vars(SweepStart(s))
        /\ WF_vars(SweepNext(s))
        /\ WF_vars(SweepSend(s) \/ SweepSendFails(s))
        /\ SF_vars(SweepSend(s))

SpecSurface == InitWeb /\ [][NextSurface]_vars /\ SurfaceFairness

\* The keys of the requests the POST handlers are working on.
InFlightKeys ==
    {http[c].redeemKey : c \in {d \in Connections : http[d].pc \notin {"idle", "done"}}}

\* The first key of RateKeys that is neither persisted nor in flight, if
\* there is one.
NextBurstKey ==
    LET free == {i \in DOMAIN RateKeys :
                    RateKeys[i] \notin PersistedKeys \cup InFlightKeys}
    IN  {RateKeys[i] : i \in {j \in free : \A k \in free : j <= k}}

\* The web deployment over its clock: one origin submitting distinct keys
\* on two connections at once.
NextBurst ==
    \/ WebArrivals(Connections, NextBurstKey, {GoodLink}, {"ip1"}, {NULL})
    \/ \E c \in Connections : WebStep(c)
    \/ \E d \in WebTicks : deployment = "web" /\ Tick(d)

SpecBurst == InitWeb /\ [][NextBurst]_vars

\* The keys of the key specification: a well-formed one, one with a
\* character outside the key class, one with a space inside and one that
\* trims to the first.
ShapeKeys == {KeyA, HashKey, SpacedKey, PaddedKeyA}

\* Either deployment with keys of every shape and a valid invite link.
NextKeys ==
    \/ WebArrivals({"c1"}, ShapeKeys, {GoodLink}, {"ip1"}, {NULL})
    \/ WebStep("c1")
    \/ \E u \in Users : CmdRedeem(u)
    \/ \E u \in Users : \E k \in ShapeKeys : CmdModalSubmit(u, k, GoodLink)
    \/ \E d \in CommandTicks : deployment = "command" /\ Tick(d)

SpecKeys == Init /\ [][NextKeys]_vars

-----------------------------------------------------------------------------
(* Claims *)

\* The history of the request with this id.
HistOf(id) == hist[CHOOSE i \in DOMAIN redeem_requests : redeem_requests[i].id = id]

\* C1, as stated: once a key is in the used-key ledger, every later submit
\* carrying it fails with the duplicate-key outcome and creates no request.
\* A request that came when the ledger held its key is answered "already
\* used" and never gets past the ledger check; a modal submitted with a key
\* of the file ledger is answered "Key Already Used" and saves nothing.
C1_UsedKeyAlwaysDuplicate ==
    /\ [](\A c \in Connections :
            http[c].keyWasUsed =>
                /\ http[c].pc \in {"isKeyUsed", "done"}
                /\ http[c].pc = "done" => http[c].res = DuplicateKey)
    /\ [][\A u \in Users : \A k \in ModalKeys : \A l \in ModalLinks :
            (CmdModalSubmit(u, k, l) /\ Trim(k) \in Range(usedKeysFile)) =>
                /\ reply'.title = "Key Already Used"
                /\ requestsFile' = requestsFile]_vars

\* C1, amended: once a key is in the used-key ledger, every later submit
\* carrying it creates no request, and it fails with the duplicate-key
\* outcome whenever it reaches the ledger check; a submit the request limiter
\* refuses fails with the limiter's 429, and one with a malformed name or
\* invite link fails with the validation outcome.
C1_UsedKeyNeverAccepted ==
    /\ [](\A c \in Connections :
            http[c].keyWasUsed =>
                /\ http[c].pc \in {"isKeyUsed", "done"}
                /\ http[c].pc = "done" =>
                      \/ http[c].res = DuplicateKey
                      \/ http[c].res = ValidationFailed /\ http[c].errors # {}
                      \/ http[c].res = TooManyRequests)
    /\ [][\A u \in Users : \A k \in ModalKeys : \A l \in ModalLinks :
            (CmdModalSubmit(u, k, l) /\ Trim(k) \in Range(usedKeysFile)) =>
                /\ reply'.title = IF MatchesInviteRegex(Trim(l))
                                  THEN "Key Already Used"
                                  ELSE "Invalid Invite Link"
                /\ requestsFile' = requestsFile
                /\ usedKeysFile' = usedKeysFile]_vars

\* C1 witness: the only request was rejected, and a later submit carrying
\* its key has been answered with the duplicate-key outcome.
C1_DuplicateAfterRejection ==
    /\ Len(redeem_requests) = 1
    /\ redeem_requests[1].status = "REJECTED"
    /\ \E c \in Connections :
         http[c].keyWasUsed /\ http[c].pc = "done" /\ http[c].res = DuplicateKey

\* C2: once a request's status is APPROVED or REJECTED it never changes.
C2_TerminalStatusNeverChanges ==
    [][\A i \in DOMAIN redeem_requests :
          redeem_requests[i].status \in {"APPROVED", "REJECTED"} =>
              redeem_requests'[i].status = redeem_requests[i].status]_vars

\* C3: for every request, a status-setting call succeeds at most once.
C3_SetStatusSucceedsOnce == \A i \in DOMAIN hist : hist[i].sets <= 1

\* C4: the pending listing never contains a request whose status has at
\* some earlier point been set to APPROVED or REJECTED.
C4_PendingListingExcludesDecided ==
    \A r \in Range(getRequestsByStatus("PENDING")) : ~HistOf(r.id).decided

C6_SubmitReturnsPendingId ==
    /\ [][\A c \in Connections :
            (WebCreate(c) /\ redeem_requests' # redeem_requests) =>
                LET id == http'[c].requestId
                    got == {r \in Range(redeem_requests') : r.id = id}
                IN  /\ Len(redeem_requests') = Len(redeem_requests) + 1
                    /\ Cardinality(got) = 1
                    /\ \A r \in got : r.status = "PENDING"
                    /\ \A r \in got : r.redeemKey = http[c].redeemKey]_vars
    /\ [](\A c \in Connections :
            http[c].res.code = 201 =>
                \E r \in Range(redeem_requests) : r.id = http[c].res.requestId)
    /\ [][\A u \in Users : \A k \in ModalKeys : \A l \in ModalLinks :
            (CmdModalSubmit(u, k, l) /\ reply'.title = "Processing Request") =>
                /\ Len(requestsFile') = Len(requestsFile) + 1
                /\ requestsFile'[Len(requestsFile')].status = "PENDING"]_vars
    /\ [](/\ \A r \in Range(requestsFile) : "id" \in DOMAIN r
          /\ reply.title = "Processing Request" =>
                 "requestId" \in DOMAIN reply)

\* The requests of one origin inside the 15 minutes before now.
RecentOf(ipAddress) ==
    {i \in DOMAIN redeem_requests :
        /\ redeem_requests[i].ipAddress = ipAddress
        /\ now - redeem_requests[i].timestamp < 15}

\* A well-formed submission of the key k.
GoodBody(k) == [name |-> Name, redeemKey |-> k, inviteLink |-> GoodLink]

\* The key is in no ledger row and in no request.
FreshKey(k) ==
    /\ k \notin LedgerKeys
    /\ \A r \in Range(redeem_requests) : r.redeemKey # k

\* C7, as stated: a submission that passes validation and has a fresh key is
\* rejected with the rate-limited outcome (429) exactly when 3 or more
\* requests of its origin exist with a timestamp inside the last 15 minutes:
\* it is not answered 429 on arrival with fewer than 3, and the handler's
\* rate step answers 429 exactly with 3 or more.
C7_RateLimitedExactlyAtThree ==
    /\ [][\A c \in Connections : \A ip \in Origins : \A k \in Range(RateKeys) :
            (WebReceive(c, GoodBody(k), ip, NULL) /\ FreshKey(k)
                 /\ http'[c].res.code = 429) =>
                Cardinality(RecentOf(ip)) >= 3]_vars
    /\ [][\A c \in Connections :
            WebRecent(c) =>
                (http'[c].res.code = 429
                     <=> Cardinality(RecentOf(http[c].ipAddress)) >= 3)]_vars

\* C7, amended: a submission that passes validation and has a fresh key is
\* answered 429 on arrival exactly when its origin has already made 5
\* requests to /api/ in the limiter's current window; one that is let
\* through is rejected with the rate-limited outcome exactly when 3 or more
\* requests of its origin exist with a timestamp inside the last 15 minutes.
C7_RateLimitedByLimiterOrAtThree ==
    /\ [][\A c \in Connections : \A ip \in Origins : \A k \in Range(RateKeys) :
            (WebReceive(c, GoodBody(k), ip, NULL) /\ FreshKey(k)) =>
                /\ http'[c].res.code = 429
                       <=> (now < hits[ip].resetTime /\ hits[ip].count >= 5)
                /\ http'[c].res.code = 429 => http'[c].res = TooManyRequests
                /\ http'[c].res.code # 429 => http'[c].pc = "isKeyUsed"]_vars
    /\ [][\A c \in Connections :
            WebRecent(c) =>
                (http'[c].res = RateLimited
                     <=> Cardinality(RecentOf(http[c].ipAddress)) >= 3)]_vars

\* C7 witness: three requests of one origin were accepted inside 15
\* minutes and a fourth submission with a fresh key was answered 429.
C7_FourthIsRateLimited ==
    /\ Len(redeem_requests) = 3
    /\ \A i \in DOMAIN redeem_requests :
         /\ redeem_requests[i].ipAddress = "ip1"
         /\ now - redeem_requests[i].timestamp < 15
    /\ Len(used_keys) = 3
    /\ http["c1"].pc = "done" /\ http["c1"].res = RateLimited
    /\ ~http["c1"].keyWasUsed

\* The saved requests of one user.
SavedBy(userId) == {i \in DOMAIN requestsFile : requestsFile[i].userId = userId}

\* C8: with the 10-minute cooldown, /redeem is answered with the cooldown
\* rejection exactly while the user's last accepted submission is less than
\* 10 minutes old (so at 5 minutes, and not at 11), and a modal submitted
\* with a fresh key and a valid invite is accepted.
C8_CooldownScenario ==
    [][/\ \A u \in Users :
            CmdRedeem(u) =>
                (reply'.title = "Cooldown Active"
                     <=> \E i \in SavedBy(u) : now - requestsFile[i].timestamp < 10)
       /\ \A u \in Users : \A k \in ModalKeys : \A l \in ModalLinks :
            (/\ CmdModalSubmit(u, k, l)
             /\ Trim(k) # <<>> /\ Trim(k) \notin Range(usedKeysFile)
             /\ MatchesInviteRegex(Trim(l))) =>
                /\ reply'.title = "Processing Request"
                /\ requestsFile' # requestsFile]_vars

\* C8 witness: one user was accepted at T and again at T + 11 minutes, and
\* 5 minutes after an accepted submission /redeem is answered with the
\* cooldown rejection.
C8_RejectedAtFiveAcceptedAtEleven ==
    \E u \in Users :
        /\ \E i, j \in SavedBy(u) :
             requestsFile[j].timestamp - requestsFile[i].timestamp = 11
        /\ \E i \in SavedBy(u) : now - requestsFile[i].timestamp = 5
        /\ reply = Reply(u, "command", "Cooldown Active")

\* C9: any two accepted command-driven submissions of one submitter are at
\* least 10 minutes apart.
C9_AcceptedTenMinutesApart ==
    \A i, j \in DOMAIN requestsFile :
        (i < j /\ requestsFile[i].userId = requestsFile[j].userId) =>
            requestsFile[j].timestamp - requestsFile[i].timestamp >= 10

\* C10: every failed submit returns one of the typed outcomes
\* ValidationFailed, DuplicateKey or RateLimited (the limiter's 429 counted
\* with the last), never the internal-error response.
C10_FailuresAreTyped ==
    \A c \in Connections :
        (http[c].pc = "done" /\ http[c].res.code # 201) =>
            http[c].res \in {ValidationFailed, DuplicateKey, RateLimited,
                             TooManyRequests}

\* C11: the used-key ledger is append-only: a key that is in the ledger in
\* one state is in the ledger in the next, in the file and in the table,
\* failed reads and writes of the ledger included.
C11_LedgerAppendOnly ==
    [][/\ Range(usedKeysFile) \subseteq Range(usedKeysFile')
       /\ LedgerKeys \subseteq LedgerKeys']_vars

\* C12: markUsed on a key that has a ledger entry reports failure (false in
\* the file store, a rejected insert in the table) and leaves the ledger as
\* it was; on a key without an entry it adds exactly that key; no key has
\* two entries.
C12_MarkUsedOnce ==
    /\ [][\A k \in StoreKeys :
            CallFileMarkKeyAsUsed(k) =>
                IF k \in Range(usedKeysFile)
                THEN ret'.value = "false" /\ usedKeysFile' = usedKeysFile
                ELSE /\ ret'.value = "true"
                     /\ usedKeysFile' = Append(usedKeysFile, k)]_vars
    /\ [][\A k \in StoreKeys :
            CallMarkKeyAsUsed(k) =>
                IF k \in LedgerKeys
                THEN ret'.value = "rejected" /\ used_keys' = used_keys
                ELSE /\ ret'.value = "resolved"
                     /\ Len(used_keys') = Len(used_keys) + 1
                     /\ LedgerKeys' = LedgerKeys \cup {k}]_vars
    /\ [](/\ \A i, j \in DOMAIN usedKeysFile :
                i # j => usedKeysFile[i] # usedKeysFile[j]
          /\ \A i, j \in DOMAIN used_keys :
                i # j => used_keys[i].redeemKey # used_keys[j].redeemKey)

\* C12 witness: markKeyAsUsed has just returned false for a key of the file
\* ledger, which holds it once.
C12_SecondMarkReturnsFalse ==
    /\ ret = Return("markKeyAsUsed", "false")
    /\ Cardinality({i \in DOMAIN usedKeysFile : usedKeysFile[i] = KeyA}) = 1
    /\ Len(usedKeysFile) = 2

\* C13: isOnCooldown(identity) is true exactly when the identity has a
\* recorded lastRequestAt and now - lastRequestAt is less than 10 minutes.
C13_OnCooldownExactlyInsideWindow ==
    \A u \in Users :
        isUserOnCooldown(u) <=>
            (u \in DOMAIN cooldownsFile /\ now - cooldownsFile[u] < 10)

\* C13 witness: one user's entry is exactly 10 minutes old and /redeem has
\* just shown that user the modal; another user has an entry inside the
\* window.
C13_NotOnCooldownAtTenMinutes ==
    \E u, v \in Users :
        /\ u \in DOMAIN cooldownsFile /\ now - cooldownsFile[u] = 10
        /\ reply = Reply(u, "command", "showModal")
        /\ v \in DOMAIN cooldownsFile /\ now - cooldownsFile[v] < 10

\* The answer of isOnCooldown for the user at the time t, over the given
\* contents of the cooldown file.
OnCooldownAt(cooldowns, u, t) == u \in DOMAIN cooldowns /\ t - cooldowns[u] < 10

\* C14: cleanupOldCooldowns never changes the answer of isOnCooldown, for
\* every identity, now and at every later time, and it removes no entry
\* that is still inside the window.
C14_PurgeKeepsAnswers ==
    [][CmdReady =>
          \A u \in Users :
              /\ \A t \in now..MaxTime :
                     OnCooldownAt(cooldownsFile', u, t)
                         <=> OnCooldownAt(cooldownsFile, u, t)
              /\ OnCooldownAt(cooldownsFile, u, now) =>
                     /\ u \in DOMAIN cooldownsFile'
                     /\ cooldownsFile'[u] = cooldownsFile[u]]_vars

\* C14 witness: the entry of a user with a saved request has been purged,
\* and the entry of another user, inside the window, is still there.
C14_PurgedOneKeptOne ==
    \E u, v \in Users :
        /\ SavedBy(u) # {} /\ u \notin DOMAIN cooldownsFile
        /\ OnCooldownAt(cooldownsFile, v, now)

\* The ids that have a request.
RequestIds == {r.id : r \in Range(redeem_requests)}

\* C15: a decision or status update addressed to an id that has no request
\* returns the not-found outcome and changes no request, on the PUT path
\* (for a request the handler gets to see) and on the button path.
C15_UnknownIdIsNotFound ==
    /\ [][\A id \in 1..3 : \A status \in Statuses : \A ip \in Origins :
            (WebPutStatus(id, status, ip) /\ id \notin RequestIds
                 /\ put' # TooManyRequests) =>
                /\ put'.code = 404
                /\ redeem_requests' = redeem_requests]_vars
    /\ [][\A r \in Reviewers : \A action \in {"approve", "reject"} : \A id \in 1..3 :
            (ClickRead(r, action, id) /\ id \notin RequestIds) =>
                /\ click'[r].pc = "done"
                /\ click'[r].res = "Request not found."
                /\ redeem_requests' = redeem_requests]_vars

\* C15 witness: with a request on record, a PUT and a click addressed to
\* another id have both been answered not found.
C15_BothPathsNotFound ==
    /\ redeem_requests # <<>>
    /\ put.code = 404
    /\ \E r \in Reviewers :
         click[r].pc = "done" /\ click[r].res = "Request not found."

\* A step that is a successful decision: the button handler's update, or a
\* PUT answered 200.
SuccessfulDecision ==
    \/ \E r \in Reviewers : ClickUpdate(r)
    \/ \E id \in 1..3 : \E status \in Statuses : \E ip \in Origins :
         WebPutStatus(id, status, ip) /\ put'.code = 200

\* C16: a successful decision on a request changes only that request's
\* status: its other fields, every other request and the used-key ledger
\* are unchanged.
C16_DecisionChangesOnlyStatus ==
    [][SuccessfulDecision =>
          /\ used_keys' = used_keys
          /\ DOMAIN redeem_requests' = DOMAIN redeem_requests
          /\ \E id \in RequestIds :
               \A i \in DOMAIN redeem_requests :
                   IF redeem_requests[i].id = id
                   THEN [redeem_requests'[i] EXCEPT !.status = redeem_requests[i].status]
                            = redeem_requests[i]
                   ELSE redeem_requests'[i] = redeem_requests[i]]_vars

\* C16 witness: of two requests one has been approved by a click and the
\* other is still pending.
C16_OneDecidedOneUntouched ==
    /\ Len(redeem_requests) = 2
    /\ \E i, j \in DOMAIN redeem_requests :
         /\ redeem_requests[i].status = "APPROVED"
         /\ redeem_requests[j].status = "PENDING"
    /\ \E r \in Reviewers : click[r].pc = "done" /\ click[r].res = "confirmed"

\* The messages of the channel that notify of the request with this id.
NotificationsOf(id) == {m \in DOMAIN messages : messages[m].requestId = id}

\* C17: no request gets more than one new-request notification, for every
\* interleaving of the sweeps.
C17_NotifiedOnce ==
    \A id \in RequestIds : Cardinality(NotificationsOf(id)) <= 1

\* C18: after a button decision succeeds on a request the sweep surfaced,
\* the message stored for the request shows the request's stored status and
\* carries no decision buttons.
C18_MessageReflectsDecision ==
    [][\A r \in Reviewers :
          (ClickUpdate(r) /\ NumberKey(click[r].requestId) \in DOMAIN activeMessages) =>
              LET id == click[r].requestId
                  m  == activeMessages[NumberKey(id)]
              IN  /\ ~messages'[m].components
                  /\ \A q \in Range(redeem_requests') :
                         q.id = id => messages'[m].status = q.status]_vars

\* C19: a request accepted through the order endpoint with order id X is
\* persisted with orderId = X, and the orderId of a persisted request never
\* changes.
C19_OrderIdPersisted ==
    /\ [][\A c \in Connections :
            (WebCreate(c) /\ redeem_requests' # redeem_requests) =>
                redeem_requests'[Len(redeem_requests')].orderId = http[c].orderId]_vars
    /\ [][\A i \in DOMAIN redeem_requests :
            redeem_requests'[i].orderId = redeem_requests[i].orderId]_vars

\* The text https://discord.gg/ letter by letter.
InvitePrefix ==
    <<"h","t","t","p","s",":","/","/","d","i","s","c","o","r","d",".","g","g","/">>

\* The link is exactly https://discord.gg/ followed by one or more ASCII
\* letters or digits.
ExactInvite(s) ==
    /\ Len(s) > Len(InvitePrefix)
    /\ SubSeq(s, 1, Len(InvitePrefix)) = InvitePrefix
    /\ \A i \in (Len(InvitePrefix) + 1)..Len(s) : s[i] \in Digits \cup Lower \cup Upper

\* C20: on both intake paths a submission with a well-formed name and key
\* fails invite-link validation exactly when its link, trimmed, is not
\* https://discord.gg/ followed by one or more ASCII letters or digits; so
\* https://discord.gg/abc123 is accepted and http://discord.gg/abc123 and
\* https://discordapp.com/invite/abc123 are rejected.
C20_InviteLinkValidation ==
    /\ ExactInvite(GoodLink) /\ ~ExactInvite(HttpLink) /\ ~ExactInvite(AppLink)
    /\ [][\A c \in Connections : \A l \in LinkInputs :
            (WebReceive(c, [name |-> Name, redeemKey |-> KeyA, inviteLink |-> l],
                        "ip1", NULL)
                 /\ http'[c].res # TooManyRequests) =>
                (http'[c].res = ValidationFailed <=> ~ExactInvite(Trim(l)))]_vars
    /\ [][\A k \in StoreKeys : \A l \in LinkInputs :
            CmdModalSubmit("u1", k, l) =>
                (reply'.title = "Invalid Invite Link" <=> ~ExactInvite(Trim(l)))]_vars

\* C20 witness: the command bot has saved a request with the invite
\* https://discord.gg/abc123 and has then answered a modal with
\* https://discordapp.com/invite/abc123 or http://discord.gg/abc123 with
\* the invalid-link reply.
C20_GoodLinkSavedBadLinkRefused ==
    /\ Len(requestsFile) = 1
    /\ requestsFile[1].invite = GoodLink
    /\ reply = Reply("u1", "modal", "Invalid Invite Link")

\* C21: every persisted request has an id, the ids of the persisted requests
\* are unique and strictly increasing in the order of creation, and the id
\* of a persisted request never changes.
C21_IdsUniqueAndIncreasing ==
    /\ [](\A i \in DOMAIN redeem_requests : \A j \in DOMAIN redeem_requests :
            i < j => redeem_requests[i].id < redeem_requests[j].id)
    /\ [][\A i \in DOMAIN redeem_requests :
            redeem_requests'[i].id = redeem_requests[i].id]_vars
    /\ [](\A i \in DOMAIN requestsFile : "id" \in DOMAIN requestsFile[i])

\* The rows are listed newest first.
NewestFirst(rows) ==
    \A i \in DOMAIN rows : \A j \in DOMAIN rows :
        i < j => rows[i].timestamp >= rows[j].timestamp

\* The list holds each of the matching requests once and nothing else.
EachOnce(rows, matching) ==
    /\ \A i \in DOMAIN rows : rows[i] \in matching
    /\ \A r \in matching : Cardinality({i \in DOMAIN rows : rows[i] = r}) = 1

\* A step in which the list function of this name returns: nothing but its
\* result changes.
Listed(fn) ==
    /\ ret'.fn = fn
    /\ UNCHANGED <<deployment, now, redeem_requests, used_keys, http, click, put,
                   hits, hist>>

\* C22: listing all requests returns every request exactly once, listing by
\* status returns every request of that status exactly once and no other,
\* both ordered by timestamp from newest to oldest.
C22_ListsCompleteNewestFirst ==
    /\ [][Listed("getAllRequests") =>
            /\ EachOnce(ret'.value, Range(redeem_requests))
            /\ NewestFirst(ret'.value)]_vars
    /\ [][\A status \in Statuses :
            Listed(ByStatus[status]) =>
                /\ EachOnce(ret'.value,
                            {r \in Range(redeem_requests) : r.status = status})
                /\ NewestFirst(ret'.value)]_vars

\* C22 witness: with three requests of three submission times, the oldest
\* one decided, the PENDING listing has returned the other two, newest first.
C22_TwoPendingListed ==
    /\ Len(redeem_requests) = 3
    /\ redeem_requests[1].status \in Terminal
    /\ redeem_requests[1].timestamp < redeem_requests[2].timestamp
    /\ redeem_requests[2].timestamp < redeem_requests[3].timestamp
    /\ ret.fn = ByStatus["PENDING"]
    /\ ret.value = <<redeem_requests[3], redeem_requests[2]>>

\* C23: at every moment at most one run of checkForNewRequests is in
\* progress, and no run starts while another one has not returned.
C23_SweepNotReentrant ==
    /\ [](Cardinality({s \in Sweeps : sweep[s].pc # "idle"}) <= 1)
    /\ [][\A s \in Sweeps :
            SweepStart(s) => \A t \in Sweeps : sweep[t].pc = "idle"]_vars

\* C24: a status-setting call whose new status is not APPROVED or REJECTED
\* fails and leaves every request as it was.
C24_OnlyDecisionsAccepted ==
    [][\A id \in 1..3 : \A status \in (Statuses \cup {"DONE"}) \ Terminal :
          WebPutStatus(id, status, "ip1") =>
              /\ put'.code # 200
              /\ redeem_requests' = redeem_requests]_vars

\* C25: a submit that ends in failure leaves the stores as they were before
\* the call.  When a POST handler that got past validation answers with a
\* failure, the request it may have inserted is not among the rows and its
\* key is in the ledger only if it was there when the request came; a modal
\* answered with a failure leaves the three files unchanged.
C25_FailedSubmitLeavesNothing ==
    /\ [][\A c \in Connections :
            (/\ http[c].pc \notin {"idle", "done"}
             /\ http'[c].pc = "done"
             /\ http'[c].res.code # 201) =>
                /\ ~\E r \in Range(redeem_requests') : r.id = http[c].requestId
                /\ http[c].redeemKey \in LedgerKeys' => http[c].keyWasUsed]_vars
    /\ [][\A k \in StoreKeys : \A fault \in Faults :
            (CmdModalSubmitFaulty("u1", k, GoodLink, fault)
                 /\ reply'.title # "Processing Request") =>
                UNCHANGED fileVars]_vars

\* C26: in every reachable state each key of the used-key ledger belongs to
\* some persisted request, in the database and in the files.
C26_LedgerKeysHaveRequests ==
    /\ \A k \in LedgerKeys : \E r \in Range(redeem_requests) : r.redeemKey = k
    /\ \A k \in Range(usedKeysFile) :
          \E i \in DOMAIN requestsFile : requestsFile[i].redeemKey = k

\* The shape the web intake asks of a submission, on the trimmed fields:
\* a name and a key of 1 to 100 characters, the key of letters, digits,
\* hyphens and underscores, and a discord.gg invite link.
WellShaped(raw) ==
    /\ Len(Trim(raw.name)) >= 1 /\ Len(Trim(raw.name)) <= 100
    /\ Len(Trim(raw.redeemKey)) >= 1 /\ Len(Trim(raw.redeemKey)) <= 100
    /\ \A i \in DOMAIN Trim(raw.redeemKey) :
          Trim(raw.redeemKey)[i] \in Digits \cup Lower \cup Upper \cup {"-", "_"}
    /\ ExactInvite(Trim(raw.inviteLink))

\* The bodies that arrive in the link specification, by origin.
BodiesFrom(ip) ==
    IF ip = "ip1" THEN Bodies({Name}, {KeyA}, LinkInputs) ELSE ShapelessBodies

\* C27: a submission that fails shape validation changes no state.  A POST
\* with an ill-shaped body that the limiter lets through is answered
\* "Validation failed" at once, with the handler finished and both tables
\* unchanged; a modal with an empty key or an invalid invite link is
\* answered with the matching error and leaves requests, ledger and
\* cooldowns unchanged.
C27_InvalidShapeChangesNothing ==
    /\ [][\A ip \in Origins : \A raw \in BodiesFrom(ip) :
            (/\ WebReceive("c1", raw, ip, NULL)
             /\ ~WellShaped(raw)
             /\ http'["c1"].res # TooManyRequests) =>
                /\ http'["c1"].pc = "done"
                /\ http'["c1"].res = ValidationFailed
                /\ UNCHANGED dbVars]_vars
    /\ [][\A k \in LinkModalKeys : \A l \in LinkInputs :
            (/\ CmdModalSubmit("u1", k, l)
             /\ (Trim(k) = <<>> \/ ~ExactInvite(Trim(l)))) =>
                /\ reply'.title \in {"Invalid Input", "Invalid Invite Link"}
                /\ UNCHANGED fileVars]_vars

\* C27 witness: the origin ip1, which submits one key only, has sent two
\* requests; the first failed validation and left no row, the second, with
\* the same key, has been accepted.
C27_AcceptedAfterValidationFailure ==
    /\ hits["ip1"].count = 2
    /\ Len(redeem_requests) = 1
    /\ redeem_requests[1].ipAddress = "ip1"
    /\ redeem_requests[1].redeemKey = KeyA
    /\ KeyA \in LedgerKeys
    /\ http["c1"].res.code = 201

\* C28: a submission rejected by the rate or cooldown policy consumes
\* nothing, and the policy lets the submitter through once its window has
\* passed.  A POST answered 429, by the limiter or by the handler, leaves
\* both tables unchanged, and a /redeem answered with the cooldown embed
\* leaves the files unchanged; a POST arriving when the limiter's window of
\* its origin has ended is not refused by the limiter, one whose origin has
\* no request of the last 15 minutes passes the handler's rate step, and a
\* /redeem 10 minutes or more after the user's entry gets the modal.
C28_RateRejectionConsumesNothing ==
    /\ [][\A c \in Connections :
            (http'[c] # http[c] /\ http'[c].res \in {RateLimited, TooManyRequests}) =>
                UNCHANGED dbVars]_vars
    /\ [][\A u \in Users :
            (CmdRedeem(u) /\ reply'.title = "Cooldown Active") =>
                UNCHANGED fileVars]_vars
    /\ [][\A ip \in Origins : \A k \in Range(RateKeys) :
            (WebReceive("c1", GoodBody(k), ip, NULL) /\ now >= hits[ip].resetTime) =>
                http'["c1"].pc = "isKeyUsed"]_vars
    /\ [][(WebRecent("c1") /\ RecentOf(http["c1"].ipAddress) = {}) =>
                http'["c1"].pc = "create"]_vars
    /\ [][\A u \in Users :
            (CmdRedeem(u)
                 /\ (u \in DOMAIN cooldownsFile => now - cooldownsFile[u] >= 10)) =>
                reply'.title = "showModal"]_vars

\* C28 witness: after the first minute, a fourth key was submitted by an
\* origin with three recent requests and answered with the rate-limited
\* outcome; the key is in no ledger row and in no request.
C28_RateLimitedKeyStillFree ==
    /\ now > 1
    /\ Len(redeem_requests) = 3
    /\ http["c1"].pc = "done" /\ http["c1"].res = RateLimited
    /\ LedgerKeys = {KeyA, KeyB, KeyC}
    /\ FreshKey(KeyD)

\* C29: a well-formed submission whose key is already used and whose
\* submitter or origin is throttled gets the duplicate-key outcome, not the
\* rate-limited one.  A POST with a key of the ledger is not answered 429 on
\* arrival and is answered "already used" by the handler; a user on
\* cooldown who sets out to submit, when keys have been used, is not
\* answered with the cooldown embed.
C29_DuplicateBeforeRateLimit ==
    /\ [][\A k \in {KeyA, KeyB} :
            (WebReceive("c1", GoodBody(k), "ip1", NULL) /\ k \in LedgerKeys) =>
                http'["c1"].res.code # 429]_vars
    /\ [][(WebIsKeyUsed("c1") /\ http["c1"].keyWasUsed) =>
                http'["c1"].res = DuplicateKey]_vars
    /\ [][\A u \in Users :
            (/\ CmdRedeem(u)
             /\ u \in DOMAIN cooldownsFile /\ now - cooldownsFile[u] < 10
             /\ usedKeysFile # <<>>) =>
                reply'.title # "Cooldown Active"]_vars

\* C30: after an accepted modal of the user u at time t, u's cooldown entry
\* is t and every other entry is as before; a modal rejected for an empty
\* key, an invalid invite link or a used key leaves the cooldown entries
\* unchanged.
C30_CooldownSetOnAcceptance ==
    [][\A u \in Users : \A k \in ModalKeys : \A l \in ModalLinks :
          CmdModalSubmit(u, k, l) =>
              IF \/ Trim(k) = <<>>
                 \/ ~ExactInvite(Trim(l))
                 \/ Trim(k) \in Range(usedKeysFile)
              THEN cooldownsFile' = cooldownsFile
              ELSE /\ DOMAIN cooldownsFile' = DOMAIN cooldownsFile \cup {u}
                   /\ cooldownsFile'[u] = now
                   /\ \A v \in DOMAIN cooldownsFile \ {u} :
                         cooldownsFile'[v] = cooldownsFile[v]]_vars

\* C30 witness: the user u1 has two saved requests of different times, and
\* u1's cooldown entry is the time of the later one.
C30_EntryOverwritten ==
    /\ Cardinality(SavedBy("u1")) = 2
    /\ \E i \in SavedBy("u1") : \E j \in SavedBy("u1") :
          /\ requestsFile[i].timestamp < requestsFile[j].timestamp
          /\ cooldownsFile["u1"] = requestsFile[j].timestamp

\* The key has 1 to 100 characters, all of them letters, digits, hyphens or
\* underscores.
KeyWellFormed(k) ==
    /\ Len(k) >= 1 /\ Len(k) <= 100
    /\ \A i \in DOMAIN k : k[i] \in Digits \cup Lower \cup Upper \cup {"-", "_"}

\* C31: every persisted request, in the table and in the requests file, has
\* a redeemKey of 1 to 100 characters drawn only from letters, digits,
\* hyphen and underscore.
C31_PersistedKeysWellFormed ==
    /\ \A i \in DOMAIN redeem_requests : KeyWellFormed(redeem_requests[i].redeemKey)
    /\ \A i \in DOMAIN requestsFile : KeyWellFormed(requestsFile[i].redeemKey)

\* The request with this id is persisted and PENDING.
PendingRequest(id) ==
    \E r \in Range(redeem_requests) : r.id = id /\ r.status = "PENDING"

\* A message for the request with this id is in the channel.
Surfaced(id) == \E m \in DOMAIN messages : messages[m].requestId = id

\* C32: every persisted request is eventually surfaced to the channel
\* unless it stops being PENDING first.
C32_PendingEventuallySurfaced ==
    \A id \in 1..2 : PendingRequest(id) ~> (Surfaced(id) \/ ~PendingRequest(id))

\* C32 witness: two requests are PENDING and each has its message in the
\* channel, the one for the first request sent after the one for the second
\* (its first send failed, or its run was overtaken) and carrying the
\* buttons; no run of the sweep is in progress.
C32_SurfacedAfterFailedSend ==
    /\ PendingRequest(1) /\ PendingRequest(2)
    /\ Len(messages) = 2
    /\ messages[1].requestId = 2 /\ messages[2].requestId = 1
    /\ messages[2].components
    /\ \A s \in Sweeps : sweep[s].pc = "idle"

\* C33: when two button decisions for one PENDING request are handled
\* concurrently, the status is written at most once: a button handler
\* writes only to a request that is PENDING at the moment of the write, and
\* the two reviewers are never both answered with the confirmation.
C33_ConcurrentDecisionsWriteOnce ==
    /\ [][\A r \in Reviewers :
            ClickUpdate(r) =>
                \A q \in getRequestById(click[r].requestId) : q.status = "PENDING"]_vars
    /\ [](~\A r \in Reviewers : click[r].res = "confirmed")

\* The requests of the origin whose timestamps lie in the 15 minutes that
\* start at t.
InWindow(ipAddress, t) ==
    {i \in DOMAIN redeem_requests :
        /\ redeem_requests[i].ipAddress = ipAddress
        /\ redeem_requests[i].timestamp >= t
        /\ redeem_requests[i].timestamp < t + 15}

\* C34: in every reachable state no origin has more than 3 persisted
\* requests whose timestamps fall within one 15-minute window.
C34_AtMostThreePerWindow ==
    \A ip \in Origins : \A i \in DOMAIN redeem_requests :
        Cardinality(InWindow(ip, redeem_requests[i].timestamp)) <= 3

=============================================================================
